---- MODULE Spec2Model ----
(***************************************************************************)
(* Model of the webhook inspector client (main.go): the supervisor          *)
(* goroutine of main, connectAndListen with its heartbeat goroutine and     *)
(* read loop, forwardWebhook, and main's interrupt handling.  Time is a     *)
(* discrete clock driving time.Sleep and time.NewTicker; one Tick is        *)
(* TickLen seconds, the common divisor of the periodic delays.              *)
(***************************************************************************)
EXTENDS Integers, Sequences, FiniteSets, TLC

\* ------------------------------------------------------------------ bounds
MaxFrames == 2
MaxSignals == 2

\* ------------------------------------------------------- program constants
ReconnectDelay == 5
GracePeriod == 1
HeartbeatInterval == 30
ControlDeadline == 10

\* Seconds per Tick of the model clock: 5 divides 5, 30 and 10; the grace
\* period of 1s is over at the first Tick after it starts.
TickLen == ReconnectDelay

\* Cap of the observer clock idle (one Tick past interval plus deadline).
IdleCap == HeartbeatInterval + ControlDeadline + TickLen

\* --------------------------------------------------------------- the inputs
\* Config values the setup step can hand to the core.
InspectorIDs == {"abc"}
LocalEndpoints == {"http://localhost:9000/hook", "://bad"}
Configs == [InspectorID : InspectorIDs, LocalEndpoint : LocalEndpoints]

\* Inbound text frames.  wf: the bytes are well-formed JSON.  id: the value
\* of the "id" member: a string, "absent" (no such member) or "number" (a
\* JSON number, which does not fit the Go string field).
FrameIds == {"abc", "zzz", "absent", "number"}
Methods == {"POST", "BAD METHOD"}
Frames ==
    {[wf |-> FALSE, id |-> "absent", method |-> "POST"]}
    \cup [wf : {TRUE}, id : FrameIds, method : Methods]
NoMessage == [wf |-> FALSE, id |-> "none", method |-> "none"]

\* The zero value of WebhookPayload (var payload WebhookPayload).
ZeroPayload == [ID |-> "", Method |-> ""]

\* No request construction is under way.
NoBuild == [none |-> TRUE]

VARIABLES
    config,       \* Config, loaded once before the core starts
    done,         \* the done channel is closed
    sigBuf,       \* number of signals buffered in the interrupt channel (cap 1)
    mainPc,       \* main goroutine: "wait", "grace", "exited"
    graceLeft,    \* remaining time of main's time.Sleep(1s)
    panicked,     \* the process crashed on close of a closed channel
    supPc,        \* supervisor goroutine position
    sleepLeft,    \* remaining time of the supervisor's time.Sleep(5s)
    connOpen,     \* conn of the current connectAndListen call is open
    message,      \* bytes returned by the last ReadMessage
    payload,      \* the decoded WebhookPayload
    pingPending,  \* a server ping is waiting to be read from conn
    hbs,          \* running heartbeat goroutines: [live, left]
    \* observers (history variables)
    signals,      \* signals delivered by the OS
    closeCount,   \* executions of close(done)
    framesRead,   \* data frames ReadMessage has returned
    matching,     \* frames read that decode and carry the configured id
    forwards,     \* invocations of forwardWebhook
    requests,     \* executions of client.Do
    readResult,   \* result of the last ReadMessage: "none", "message", "error"
    outcome,      \* outcome of the last relay iteration
    elapsed,      \* time since connectAndListen last returned (capped)
    idle,         \* time since a probe was last sent or answered (capped)
    accepted,     \* frames read that decode with the configured id, in order
    replays,      \* frame numbers for which client.Do was executed, in order
    inflight,     \* calls of forwardWebhook that have not returned
    openConns,    \* connections dialed and not closed
    \* the request construction of forwardWebhook, taken alone
    fwdIn,        \* its inputs: endpoint query and payload
    fwdOut        \* the request it builds

vars == <<config, done, sigBuf, mainPc, graceLeft, panicked, supPc, sleepLeft,
          connOpen, message, payload, pingPending, hbs, signals, closeCount,
          framesRead, matching, forwards, requests, readResult, outcome,
          elapsed, idle, accepted, replays, inflight, openConns, fwdIn,
          fwdOut>>

mainVars == <<done, sigBuf, mainPc, graceLeft, panicked, signals, closeCount>>
relayObs == <<framesRead, matching, forwards, requests, outcome, accepted,
              replays, inflight>>
buildVars == <<fwdIn, fwdOut>>

\* ------------------------------------------------------------ pure helpers
Min(a, b) == IF a < b THEN a ELSE b
Dec(n) == IF n > TickLen THEN n - TickLen ELSE 0

\* json.Unmarshal(message, &payload): an error for malformed JSON and for a
\* member whose JSON type does not fit the field; an absent member leaves the
\* zero value.
Unmarshal(m) ==
    IF ~m.wf THEN [err |-> TRUE, payload |-> ZeroPayload]
    ELSE IF m.id = "number" THEN [err |-> TRUE, payload |-> [ID |-> "", Method |-> m.method]]
    ELSE [err |-> FALSE,
          payload |-> [ID |-> IF m.id = "absent" THEN "" ELSE m.id,
                       Method |-> m.method]]

\* url.Parse(urlStr): "://bad" has no scheme before the colon.
UrlParseErr(urlStr) == urlStr = "://bad"

\* json.Marshal(payload.Body): a map produced by json.Unmarshal always
\* serializes.
MarshalErr(p) == FALSE

\* http.NewRequest(method, ...): the method must be a valid token.
NewRequestErr(method) == method = "BAD METHOD"

\* close(ch): closing a closed channel panics.
CloseChan(closed) == [closed |-> TRUE, panic |-> closed]

\* The process is alive: os.Exit has not run and there was no panic.
Running == mainPc # "exited" /\ ~panicked

TypeOK ==
    /\ config \in Configs
    /\ done \in BOOLEAN /\ sigBuf \in 0..1
    /\ mainPc \in {"wait", "grace", "exited"}
    /\ graceLeft \in 0..GracePeriod /\ panicked \in BOOLEAN
    /\ supPc \in {"dial", "read", "decode", "filter", "forward", "http",
                  "check", "sleep", "returned"}
    /\ sleepLeft \in 0..ReconnectDelay
    /\ connOpen \in BOOLEAN
    /\ message \in Frames \cup {NoMessage}
    /\ pingPending \in BOOLEAN
    /\ hbs \subseteq [live : BOOLEAN, left : 0..HeartbeatInterval]

\* The state when the supervisor goroutine starts.
InitProgram ==
    /\ config \in Configs
    /\ done = FALSE /\ sigBuf = 0 /\ mainPc = "wait" /\ graceLeft = 0
    /\ panicked = FALSE
    /\ supPc = "dial" /\ sleepLeft = 0 /\ connOpen = FALSE
    /\ message = NoMessage /\ payload = ZeroPayload
    /\ pingPending = FALSE /\ hbs = {}
    /\ signals = 0 /\ closeCount = 0
    /\ framesRead = 0 /\ matching = 0 /\ forwards = 0 /\ requests = 0
    /\ readResult = "none" /\ outcome = "none"
    /\ elapsed = 0 /\ idle = 0
    /\ accepted = <<>> /\ replays = <<>> /\ inflight = 0
    /\ openConns = 0

Init ==
    /\ InitProgram
    /\ fwdIn = NoBuild /\ fwdOut = NoBuild

\* ---------------------------------------------------------- main goroutine
\* The OS delivers SIGINT/SIGTERM: signal.Notify sends without blocking into
\* the channel of capacity 1, a signal that finds it full is dropped.
Signal ==
    /\ Running /\ signals < MaxSignals
    /\ signals' = signals + 1
    /\ sigBuf' = Min(sigBuf + 1, 1)
    /\ UNCHANGED buildVars
    /\ UNCHANGED <<accepted, replays, inflight>>
    /\ UNCHANGED <<config, openConns, done, mainPc, graceLeft, panicked, supPc, sleepLeft,
                   connOpen, message, payload, pingPending, hbs, closeCount,
                   framesRead, matching, forwards, requests, readResult,
                   outcome, elapsed, idle>>

\* Mutant of MainInterrupt: main goes back to wait for the next signal and
\* closes done for each one.
MainInterruptEverySignal ==
    /\ Running /\ mainPc = "wait" /\ sigBuf > 0
    /\ sigBuf' = sigBuf - 1
    /\ done' = CloseChan(done).closed
    /\ panicked' = CloseChan(done).panic
    /\ closeCount' = closeCount + 1
    /\ UNCHANGED <<mainPc, graceLeft>>
    /\ UNCHANGED buildVars
    /\ UNCHANGED <<accepted, replays, inflight>>
    /\ UNCHANGED <<config, openConns, supPc, sleepLeft, connOpen, message, payload,
                   pingPending, hbs, signals, framesRead, matching, forwards,
                   requests, readResult, outcome, elapsed, idle>>

\* <-interrupt; close(done); then main starts time.Sleep(1 * time.Second).
MainInterrupt ==
    /\ Running /\ mainPc = "wait" /\ sigBuf > 0
    /\ sigBuf' = sigBuf - 1
    /\ done' = CloseChan(done).closed
    /\ panicked' = CloseChan(done).panic
    /\ closeCount' = closeCount + 1
    /\ mainPc' = "grace"
    /\ graceLeft' = GracePeriod
    /\ UNCHANGED buildVars
    /\ UNCHANGED <<accepted, replays, inflight>>
    /\ UNCHANGED <<config, openConns, supPc, sleepLeft, connOpen, message, payload,
                   pingPending, hbs, signals, framesRead, matching, forwards,
                   requests, readResult, outcome, elapsed, idle>>

\* Mutant of MainExit: main waits for the supervisor goroutine to return
\* before it exits.
MainExitAfterUnwind ==
    /\ Running /\ mainPc = "grace" /\ graceLeft = 0
    /\ supPc = "returned"
    /\ mainPc' = "exited"
    /\ UNCHANGED buildVars
    /\ UNCHANGED <<accepted, replays, inflight>>
    /\ UNCHANGED <<config, openConns, done, sigBuf, graceLeft, panicked, supPc, sleepLeft,
                   connOpen, message, payload, pingPending, hbs, signals,
                   closeCount, framesRead, matching, forwards, requests,
                   readResult, outcome, elapsed, idle>>

\* os.Exit(0) once the grace sleep is over: every goroutine stops.
MainExit ==
    /\ Running /\ mainPc = "grace" /\ graceLeft = 0
    /\ mainPc' = "exited"
    /\ UNCHANGED buildVars
    /\ UNCHANGED <<accepted, replays, inflight>>
    /\ UNCHANGED <<config, openConns, done, sigBuf, graceLeft, panicked, supPc, sleepLeft,
                   connOpen, message, payload, pingPending, hbs, signals,
                   closeCount, framesRead, matching, forwards, requests,
                   readResult, outcome, elapsed, idle>>

\* ---------------------------------------------------- supervisor goroutine
\* connectAndListen up to the read loop: Dial; on error log and return to the
\* supervisor's select; on success defer conn.Close(), install the ping
\* handler and start the heartbeat goroutine with its 30s ticker.
SupDial(ok) ==
    /\ Running /\ supPc = "dial"
    /\ IF ok
       THEN /\ supPc' = "read"
            /\ connOpen' = TRUE
            /\ openConns' = openConns + 1
            /\ hbs' = hbs \cup {[live |-> TRUE, left |-> HeartbeatInterval]}
            /\ readResult' = "none"
            /\ idle' = 0
            /\ UNCHANGED elapsed
       ELSE /\ supPc' = "check"
            /\ elapsed' = 0
            /\ UNCHANGED <<connOpen, openConns, hbs, readResult, idle>>
    /\ UNCHANGED buildVars
    /\ UNCHANGED <<config, sleepLeft, message, payload, pingPending>>
    /\ UNCHANGED mainVars
    /\ UNCHANGED relayObs

\* Mutant of ReturnFromLoop: no deferred conn.Close(), the connection and
\* its heartbeat stay as they are.
ReturnFromLoopNoClose ==
    /\ supPc' = "check"
    /\ readResult' = "error"
    /\ elapsed' = 0
    /\ idle' = 0
    /\ UNCHANGED <<connOpen, openConns, pingPending, hbs>>

\* Return from connectAndListen out of the read loop: the deferred
\* conn.Close() runs; the heartbeat goroutine is not told and keeps its
\* reference to the closed conn.
ReturnFromLoop ==
    /\ supPc' = "check"
    /\ connOpen' = FALSE
    /\ openConns' = openConns - 1
    /\ pingPending' = FALSE
    /\ hbs' = {[h EXCEPT !.live = FALSE] : h \in hbs}
    /\ readResult' = "error"
    /\ elapsed' = 0
    /\ idle' = 0

\* conn.ReadMessage() returns a data frame.
SupReadMessage(m) ==
    /\ Running /\ supPc = "read" /\ connOpen
    /\ framesRead < MaxFrames
    /\ message' = m
    /\ readResult' = "message"
    /\ framesRead' = framesRead + 1
    /\ matching' = matching + (IF m.wf /\ m.id = config.InspectorID THEN 1 ELSE 0)
    /\ accepted' = IF m.wf /\ m.id = config.InspectorID
                   THEN Append(accepted, [n |-> framesRead + 1, method |-> m.method])
                   ELSE accepted
    /\ outcome' = "Received"
    /\ UNCHANGED <<replays, inflight>>
    /\ supPc' = "decode"
    /\ UNCHANGED buildVars
    /\ UNCHANGED <<config, openConns, sleepLeft, connOpen, payload, pingPending, hbs,
                   forwards, requests, elapsed, idle>>
    /\ UNCHANGED mainVars

\* conn.ReadMessage() returns an error (peer closed, network failure):
\* "Error reading message", return.
SupReadError ==
    /\ Running /\ supPc = "read"
    /\ ReturnFromLoop
    /\ UNCHANGED buildVars
    /\ UNCHANGED <<config, sleepLeft, message, payload>>
    /\ UNCHANGED mainVars
    /\ UNCHANGED relayObs

\* Inside ReadMessage a server ping is read and the ping handler runs:
\* WriteControl(PongMessage, deadline 10s).  Its error is ReadMessage's error.
SupHandlePing(ok) ==
    /\ Running /\ supPc = "read" /\ pingPending
    /\ IF ok
       THEN /\ pingPending' = FALSE
            /\ idle' = 0
            /\ UNCHANGED <<supPc, connOpen, openConns, hbs, readResult, elapsed>>
       ELSE ReturnFromLoop
    /\ UNCHANGED buildVars
    /\ UNCHANGED <<config, sleepLeft, message, payload>>
    /\ UNCHANGED mainVars
    /\ UNCHANGED relayObs

\* Mutant of SupDecode: a decode error ends the read loop (return instead of
\* continue).
SupDecodeReturnOnError ==
    /\ Running /\ supPc = "decode"
    /\ payload' = Unmarshal(message).payload
    /\ IF Unmarshal(message).err
       THEN /\ ReturnFromLoop
            /\ outcome' = "DecodeFailed"
       ELSE /\ supPc' = "filter" /\ outcome' = "Decoded"
            /\ UNCHANGED <<connOpen, openConns, pingPending, hbs, readResult,
                           elapsed, idle>>
    /\ UNCHANGED buildVars
    /\ UNCHANGED <<accepted, replays, inflight>>
    /\ UNCHANGED <<config, sleepLeft, message, framesRead, matching, forwards,
                   requests>>
    /\ UNCHANGED mainVars

\* json.Unmarshal(message, &payload); on error log and continue.
SupDecode ==
    /\ Running /\ supPc = "decode"
    /\ payload' = Unmarshal(message).payload
    /\ IF Unmarshal(message).err
       THEN supPc' = "read" /\ outcome' = "DecodeFailed"
       ELSE supPc' = "filter" /\ outcome' = "Decoded"
    /\ UNCHANGED buildVars
    /\ UNCHANGED <<accepted, replays, inflight>>
    /\ UNCHANGED <<config, openConns, sleepLeft, connOpen, message, pingPending, hbs,
                   framesRead, matching, forwards, requests, readResult,
                   elapsed, idle>>
    /\ UNCHANGED mainVars

\* Mutant of SupFilter: the id comparison is dropped, every decoded frame is
\* forwarded.
SupFilterNoCompare ==
    /\ Running /\ supPc = "filter"
    /\ supPc' = "forward" /\ forwards' = forwards + 1 /\ UNCHANGED outcome
    /\ inflight' = inflight + 1
    /\ UNCHANGED <<accepted, replays>>
    /\ UNCHANGED buildVars
    /\ UNCHANGED <<config, openConns, sleepLeft, connOpen, message, payload, pingPending,
                   hbs, framesRead, matching, requests, readResult, elapsed,
                   idle>>
    /\ UNCHANGED mainVars

\* if payload.ID != config.InspectorID { continue }; else call forwardWebhook.
SupFilter ==
    /\ Running /\ supPc = "filter"
    /\ IF payload.ID # config.InspectorID
       THEN /\ supPc' = "read" /\ outcome' = "Discarded"
            /\ UNCHANGED <<forwards, inflight>>
       ELSE /\ supPc' = "forward" /\ forwards' = forwards + 1
            /\ inflight' = inflight + 1
            /\ UNCHANGED outcome
    /\ UNCHANGED <<accepted, replays>>
    /\ UNCHANGED buildVars
    /\ UNCHANGED <<config, openConns, sleepLeft, connOpen, message, payload, pingPending,
                   hbs, framesRead, matching, requests, readResult, elapsed,
                   idle>>
    /\ UNCHANGED mainVars

\* Mutant of forwardWebhook: the error of http.NewRequest is ignored and the
\* request is executed all the same.
forwardWebhookIgnoreRequestErr ==
    /\ Running /\ supPc = "forward"
    /\ IF \/ UrlParseErr(config.LocalEndpoint)
          \/ MarshalErr(payload)
       THEN /\ supPc' = "read" /\ outcome' = "ForwardFailed"
            /\ inflight' = inflight - 1
            /\ UNCHANGED <<requests, replays>>
       ELSE /\ supPc' = "http" /\ requests' = requests + 1
            /\ replays' = Append(replays, framesRead)
            /\ UNCHANGED <<outcome, inflight>>
    /\ UNCHANGED accepted
    /\ UNCHANGED buildVars
    /\ UNCHANGED <<config, openConns, sleepLeft, connOpen, message, payload, pingPending,
                   hbs, framesRead, matching, forwards, readResult, elapsed,
                   idle>>
    /\ UNCHANGED mainVars

\* Mutant of forwardWebhook: the request is executed in the background
\* (go client.Do) and the read loop goes on at once.
forwardWebhookAsync ==
    /\ Running /\ supPc = "forward"
    /\ IF \/ UrlParseErr(config.LocalEndpoint)
          \/ MarshalErr(payload)
          \/ NewRequestErr(payload.Method)
       THEN /\ supPc' = "read" /\ outcome' = "ForwardFailed"
            /\ inflight' = inflight - 1
            /\ UNCHANGED <<requests, replays>>
       ELSE /\ supPc' = "read" /\ requests' = requests + 1
            /\ replays' = Append(replays, framesRead)
            /\ UNCHANGED <<outcome, inflight>>
    /\ UNCHANGED accepted
    /\ UNCHANGED buildVars
    /\ UNCHANGED <<config, openConns, sleepLeft, connOpen, message, payload,
                   pingPending, hbs, framesRead, matching, forwards, readResult,
                   elapsed, idle>>
    /\ UNCHANGED mainVars

\* forwardWebhook up to client.Do: parse the URL, serialize the body, build
\* the request; any error is printed and the function returns.
forwardWebhook ==
    /\ Running /\ supPc = "forward"
    /\ IF \/ UrlParseErr(config.LocalEndpoint)
          \/ MarshalErr(payload)
          \/ NewRequestErr(payload.Method)
       THEN /\ supPc' = "read" /\ outcome' = "ForwardFailed"
            /\ inflight' = inflight - 1
            /\ UNCHANGED <<requests, replays>>
       ELSE /\ supPc' = "http" /\ requests' = requests + 1
            /\ replays' = Append(replays, framesRead)
            /\ UNCHANGED <<outcome, inflight>>
    /\ UNCHANGED accepted
    /\ UNCHANGED buildVars
    /\ UNCHANGED <<config, openConns, sleepLeft, connOpen, message, payload, pingPending,
                   hbs, framesRead, matching, forwards, readResult, elapsed,
                   idle>>
    /\ UNCHANGED mainVars

\* client.Do(req) returns a response or a transport error; either way
\* forwardWebhook returns and the loop reads the next frame.
ClientDoReturns(ok) ==
    /\ Running /\ supPc = "http"
    /\ supPc' = "read"
    /\ outcome' = IF ok THEN "Forwarded" ELSE "ForwardFailed"
    /\ inflight' = inflight - 1
    /\ UNCHANGED <<accepted, replays>>
    /\ UNCHANGED buildVars
    /\ UNCHANGED <<config, openConns, sleepLeft, connOpen, message, payload, pingPending,
                   hbs, framesRead, matching, forwards, requests, readResult,
                   elapsed, idle>>
    /\ UNCHANGED mainVars

\* Mutant of SupCheck: the supervisor gives up after the first lost
\* connection, whether or not done is closed.
SupCheckGiveUp ==
    /\ Running /\ supPc = "check"
    /\ supPc' = "returned" /\ UNCHANGED sleepLeft
    /\ UNCHANGED buildVars
    /\ UNCHANGED <<config, openConns, connOpen, message, payload, pingPending, hbs,
                   readResult, elapsed, idle>>
    /\ UNCHANGED mainVars
    /\ UNCHANGED relayObs

\* The supervisor's select after connectAndListen returned: done closed ->
\* return; default -> "Reconnecting in 5 seconds", time.Sleep(5s) starts.
SupCheck ==
    /\ Running /\ supPc = "check"
    /\ IF done
       THEN supPc' = "returned" /\ UNCHANGED sleepLeft
       ELSE supPc' = "sleep" /\ sleepLeft' = ReconnectDelay
    /\ UNCHANGED buildVars
    /\ UNCHANGED <<config, openConns, connOpen, message, payload, pingPending, hbs,
                   readResult, elapsed, idle>>
    /\ UNCHANGED mainVars
    /\ UNCHANGED relayObs

\* Mutant of SupWake: the loop does not wait for the sleep to be over.
SupWakeNoSleep ==
    /\ Running /\ supPc = "sleep"
    /\ supPc' = "dial"
    /\ UNCHANGED buildVars
    /\ UNCHANGED <<config, openConns, sleepLeft, connOpen, message, payload, pingPending,
                   hbs, readResult, elapsed, idle>>
    /\ UNCHANGED mainVars
    /\ UNCHANGED relayObs

\* time.Sleep(5s) is over; the for loop calls connectAndListen again.
SupWake ==
    /\ Running /\ supPc = "sleep" /\ sleepLeft = 0
    /\ supPc' = "dial"
    /\ UNCHANGED buildVars
    /\ UNCHANGED <<config, openConns, sleepLeft, connOpen, message, payload, pingPending,
                   hbs, readResult, elapsed, idle>>
    /\ UNCHANGED mainVars
    /\ UNCHANGED relayObs

\* ------------------------------------------------------ heartbeat goroutine
\* Mutant of HbPing: a failed probe send does not end the goroutine, it
\* waits for the next tick.
HbPingRetryOnError(h, ok) ==
    /\ Running /\ h \in hbs /\ h.left = 0
    /\ ok => h.live
    /\ hbs' = (hbs \ {h}) \cup {[h EXCEPT !.left = HeartbeatInterval]}
    /\ IF ok THEN idle' = 0 ELSE UNCHANGED idle
    /\ UNCHANGED buildVars
    /\ UNCHANGED <<config, openConns, supPc, sleepLeft, connOpen, message, payload,
                   pingPending, readResult, elapsed>>
    /\ UNCHANGED mainVars
    /\ UNCHANGED relayObs

\* case <-ticker.C: WriteControl(PingMessage, deadline 10s); on error return.
\* A write on a closed conn always fails.
HbPing(h, ok) ==
    /\ Running /\ h \in hbs /\ h.left = 0
    /\ ok => h.live
    /\ IF ok
       THEN /\ hbs' = (hbs \ {h}) \cup {[h EXCEPT !.left = HeartbeatInterval]}
            /\ idle' = 0
       ELSE /\ hbs' = hbs \ {h}
            /\ UNCHANGED idle
    /\ UNCHANGED buildVars
    /\ UNCHANGED <<config, openConns, supPc, sleepLeft, connOpen, message, payload,
                   pingPending, readResult, elapsed>>
    /\ UNCHANGED mainVars
    /\ UNCHANGED relayObs

\* case <-done: return.
HbDone(h) ==
    /\ Running /\ h \in hbs /\ done
    /\ hbs' = hbs \ {h}
    /\ UNCHANGED buildVars
    /\ UNCHANGED <<config, openConns, supPc, sleepLeft, connOpen, message, payload,
                   pingPending, readResult, elapsed, idle>>
    /\ UNCHANGED mainVars
    /\ UNCHANGED relayObs

\* -------------------------------------------------------------- environment
\* The server sends a ping on the open connection.
ServerPing ==
    /\ Running /\ connOpen /\ ~pingPending
    /\ pingPending' = TRUE
    /\ UNCHANGED buildVars
    /\ UNCHANGED <<config, openConns, supPc, sleepLeft, connOpen, message, payload, hbs,
                   readResult, elapsed, idle>>
    /\ UNCHANGED mainVars
    /\ UNCHANGED relayObs

\* A timer has expired and its goroutine is runnable: it runs before the
\* next Tick.
TimerDue ==
    \/ supPc = "sleep" /\ sleepLeft = 0
    \/ mainPc = "grace" /\ graceLeft = 0
    \/ \E h \in hbs : h.left = 0

\* TickLen seconds pass.
Tick ==
    /\ Running /\ ~TimerDue
    /\ sleepLeft' = Dec(sleepLeft)
    /\ graceLeft' = Dec(graceLeft)
    /\ hbs' = {[h EXCEPT !.left = Dec(h.left)] : h \in hbs}
    /\ elapsed' = IF supPc \in {"check", "sleep"}
                  THEN Min(elapsed + TickLen, ReconnectDelay) ELSE elapsed
    /\ idle' = IF connOpen THEN Min(idle + TickLen, IdleCap) ELSE idle
    /\ UNCHANGED buildVars
    /\ UNCHANGED <<config, openConns, done, sigBuf, mainPc, panicked, supPc, connOpen,
                   message, payload, pingPending, signals, closeCount,
                   readResult>>
    /\ UNCHANGED relayObs

Next ==
    \/ Signal
    \/ MainInterrupt
    \/ MainExit
    \/ \E ok \in BOOLEAN : SupDial(ok)
    \/ \E m \in Frames : SupReadMessage(m)
    \/ SupReadError
    \/ \E ok \in BOOLEAN : SupHandlePing(ok)
    \/ SupDecode
    \/ SupFilter
    \/ forwardWebhook
    \/ \E ok \in BOOLEAN : ClientDoReturns(ok)
    \/ SupCheck
    \/ SupWake
    \/ \E h \in hbs, ok \in BOOLEAN : HbPing(h, ok)
    \/ \E h \in hbs : HbDone(h)
    \/ ServerPing
    \/ Tick

Spec == Init /\ [][Next]_vars

\* The supervisor against a peer that sends no data frames: main, the
\* supervisor loop, the heartbeat goroutines and the clock.
SupervisorNext ==
    \/ Signal
    \/ MainInterrupt
    \/ MainExit
    \/ \E ok \in BOOLEAN : SupDial(ok)
    \/ SupReadError
    \/ \E ok \in BOOLEAN : SupHandlePing(ok)
    \/ SupCheck
    \/ SupWake
    \/ \E h \in hbs, ok \in BOOLEAN : HbPing(h, ok)
    \/ \E h \in hbs : HbDone(h)
    \/ ServerPing
    \/ Tick

SupervisorSpec == Init /\ [][SupervisorNext]_vars

\* The relay in uninterrupted operation: sessions, their data frames, their
\* loss and the reconnects, with no operator signal and no server ping.
RelayNext ==
    \/ \E ok \in BOOLEAN : SupDial(ok)
    \/ \E m \in Frames : SupReadMessage(m)
    \/ SupReadError
    \/ SupDecode
    \/ SupFilter
    \/ forwardWebhook
    \/ \E ok \in BOOLEAN : ClientDoReturns(ok)
    \/ SupCheck
    \/ SupWake
    \/ \E h \in hbs, ok \in BOOLEAN : HbPing(h, ok)
    \/ Tick

RelaySpec == Init /\ [][RelayNext]_vars

\* The Go scheduler runs every runnable goroutine and time passes; the peer,
\* the local endpoint and the operator are under no obligation.
Fairness ==
    /\ WF_vars(Tick)
    /\ WF_vars(MainInterrupt)
    /\ WF_vars(MainExit)
    /\ WF_vars(\E ok \in BOOLEAN : SupDial(ok))
    /\ WF_vars(\E ok \in BOOLEAN : SupHandlePing(ok))
    /\ WF_vars(SupDecode)
    /\ WF_vars(SupFilter)
    /\ WF_vars(forwardWebhook)
    /\ WF_vars(SupCheck)
    /\ WF_vars(SupWake)
    /\ WF_vars(\E h \in hbs, ok \in BOOLEAN : HbPing(h, ok))
    /\ WF_vars(\E h \in hbs : HbDone(h))

FairSpec == SupervisorSpec /\ Fairness

\* ------------------------------------- forwardWebhook: building the request
\* The request construction of forwardWebhook (query merge, body, headers)
\* is a function of the endpoint and the payload.  It is modelled on its own
\* inputs: a query string is the sequence of its <<key, value>> pairs, a map
\* is a function, a JSON text is the value it denotes with exact numbers.
MaxParams == 2      \* pairs in the endpoint's query
MaxHeaders == 2     \* entries of payload.Headers
MaxOffset == 2      \* numbers are 0..MaxOffset and 2^53 + 0..MaxOffset

QueryKeys == {"w", "z"}
\* The keys in the order sort.Strings gives them.
SortedKeys == <<"w", "z">>
EndpointValues == {"1", "9"}
EventValues == {"2", "3"}

SeqsUpTo(S, n) == UNION {[1..k -> S] : k \in 0..n}
FunctionsOnSubsets(D, R) == UNION {[d -> R] : d \in SUBSET D}
EmptyMap == [k \in {} |-> ""]

EndpointQueries == SeqsUpTo(QueryKeys \X EndpointValues, MaxParams)
EventQueries == FunctionsOnSubsets(QueryKeys, EventValues)

\* url.Values of a raw query (u.Query()): each key with its values in order
\* of appearance.
ParseQuery(raw) ==
    [k \in {raw[i][1] : i \in DOMAIN raw} |->
        LET ps == SelectSeq(raw, LAMBDA p : p[1] = k)
        IN  [i \in 1..Len(ps) |-> ps[i][2]]]

\* Mutant of SetAll: q.Add instead of q.Set, the endpoint's values stay.
SetAllAdd(q, query) ==
    [k \in DOMAIN q \cup DOMAIN query |->
        IF k \in DOMAIN q
        THEN (IF k \in DOMAIN query THEN Append(q[k], query[k]) ELSE q[k])
        ELSE <<query[k]>>]

\* q.Set(key, value) for every entry of payload.Query: the key's values are
\* replaced by the one value.  The entries have distinct keys, so the map's
\* iteration order does not matter.
SetAll(q, query) ==
    [k \in DOMAIN q \cup DOMAIN query |->
        IF k \in DOMAIN query THEN <<query[k]>> ELSE q[k]]

RECURSIVE EncodeFrom(_, _)
\* q.Encode(): the pairs "sorted by key", each key with its values in order.
EncodeFrom(q, i) ==
    IF i > Len(SortedKeys) THEN <<>>
    ELSE LET k == SortedKeys[i]
         IN  (IF k \in DOMAIN q
              THEN [j \in 1..Len(q[k]) |-> <<k, q[k][j]>>]
              ELSE <<>>) \o EncodeFrom(q, i + 1)
Encode(q) == EncodeFrom(q, 1)

\* if payload.Query != nil && len(payload.Query) > 0 { ... u.RawQuery =
\* q.Encode() }: otherwise the endpoint's query is left as it is.
MergeQuery(raw, query) ==
    IF DOMAIN query # {}
    THEN Encode(SetAll(ParseQuery(raw), query))
    ELSE raw

\* Header names as the frame spells them, and textproto's canonical form,
\* under which http.Header.Set stores them.
HeaderNames == {"Content-Type", "content-type", "X-Test", "x-test"}
HeaderValues == {"text/plain", "1"}
CanonicalHeaderKey(name) ==
    IF name \in {"Content-Type", "content-type"} THEN "Content-Type" ELSE "X-Test"
HeaderMaps ==
    {h \in FunctionsOnSubsets(HeaderNames, HeaderValues) :
        Cardinality(DOMAIN h) <= MaxHeaders}

\* The orders in which range can visit the keys of a map.
RangeOrders(m) ==
    {o \in [1..Cardinality(DOMAIN m) -> DOMAIN m] :
        \A i, j \in DOMAIN o : i # j => o[i] # o[j]}

RECURSIVE SetHeadersFrom(_, _, _, _)
\* for key, value := range payload.Headers { req.Header.Set(key, value) }
SetHeadersFrom(hdr, m, order, i) ==
    IF i > Len(order) THEN hdr
    ELSE LET c == CanonicalHeaderKey(order[i])
         IN  SetHeadersFrom(
                [k \in DOMAIN hdr \cup {c} |-> IF k = c THEN m[order[i]] ELSE hdr[k]],
                m, order, i + 1)

\* Mutant of RequestHeaders: Content-Type is set before the payload's
\* headers are copied, so the payload's Content-Type wins.
RequestHeadersContentTypeFirst(m, order) ==
    SetHeadersFrom([k \in {"Content-Type"} |-> "application/json"], m, order, 1)

\* The headers of the request: the payload's headers copied in range order,
\* then req.Header.Set("Content-Type", "application/json").
RequestHeaders(m, order) ==
    LET hdr == SetHeadersFrom(EmptyMap, m, order, 1)
    IN  [k \in DOMAIN hdr \cup {"Content-Type"} |->
            IF k = "Content-Type" THEN "application/json" ELSE hdr[k]]

\* JSON values.  A number is (IF big THEN 2^53 ELSE 0) + n.
JsonNumbers == [t : {"num"}, big : BOOLEAN, n : 0..MaxOffset]
JsonLeaves ==
    {[t |-> "null"], [t |-> "bool", b |-> TRUE], [t |-> "str", s |-> "v"]}
    \cup JsonNumbers
JsonValues ==
    JsonLeaves
    \cup {[t |-> "arr", a |-> <<v>>] : v \in JsonLeaves}
    \cup {[t |-> "obj", o |-> [k \in {"n"} |-> v]] : v \in JsonLeaves}
\* The "body" member of a frame that decodes: absent, null or an object.
AbsentBody == [t |-> "absent"]
Bodies ==
    {AbsentBody, [t |-> "null"], [t |-> "obj", o |-> EmptyMap]}
    \cup {[t |-> "obj", o |-> [k \in {"k"} |-> v]] : v \in JsonValues}

\* strconv.ParseFloat to float64 of the integer 2^53 + n, 0 <= n < 2^53:
\* floats there are 2 apart, a tie goes to the even mantissa.
RoundOffset(n) ==
    IF n % 2 = 0 THEN n
    ELSE IF ((n - 1) \div 2) % 2 = 0 THEN n - 1 ELSE n + 1

RECURSIVE UnmarshalValue(_)
\* json.Unmarshal into interface{}: nil, bool, string, float64,
\* []interface{}, map[string]interface{}.
UnmarshalValue(v) ==
    CASE v.t = "null" -> [g |-> "nil"]
      [] v.t = "bool" -> [g |-> "bool", b |-> v.b]
      [] v.t = "str" -> [g |-> "string", s |-> v.s]
      [] v.t = "num" -> [g |-> "float64", big |-> v.big,
                         n |-> IF v.big THEN RoundOffset(v.n) ELSE v.n]
      [] v.t = "arr" -> [g |-> "slice",
                         a |-> [i \in DOMAIN v.a |-> UnmarshalValue(v.a[i])]]
      [] v.t = "obj" -> [g |-> "map",
                         o |-> [k \in DOMAIN v.o |-> UnmarshalValue(v.o[k])]]

\* Decoding the "body" member into Body map[string]interface{}: absent and
\* null leave the nil map.
UnmarshalBody(b) ==
    IF b.t \in {"absent", "null"} THEN [g |-> "nilmap"]
    ELSE [g |-> "map", o |-> [k \in DOMAIN b.o |-> UnmarshalValue(b.o[k])]]

RECURSIVE MarshalValue(_)
\* json.Marshal of a decoded value, as the JSON value its bytes denote.
MarshalValue(x) ==
    CASE x.g \in {"nil", "nilmap"} -> [t |-> "null"]
      [] x.g = "bool" -> [t |-> "bool", b |-> x.b]
      [] x.g = "string" -> [t |-> "str", s |-> x.s]
      [] x.g = "float64" -> [t |-> "num", big |-> x.big, n |-> x.n]
      [] x.g = "slice" -> [t |-> "arr",
                           a |-> [i \in DOMAIN x.a |-> MarshalValue(x.a[i])]]
      [] x.g = "map" -> [t |-> "obj",
                         o |-> [k \in DOMAIN x.o |-> MarshalValue(x.o[k])]]

\* The inputs: one of query, headers and body varies, the others are empty.
BuildInputs ==
    [endpointQuery : EndpointQueries, query : EventQueries,
     headers : {EmptyMap}, body : {[t |-> "null"]}]
    \cup [endpointQuery : {<<>>}, query : {EmptyMap},
          headers : HeaderMaps, body : {[t |-> "null"]}]
    \cup [endpointQuery : {<<>>}, query : {EmptyMap},
          headers : {EmptyMap}, body : Bodies]

\* forwardWebhook from the query merge to the headers: the request it hands
\* to client.Do.
BuildRequest ==
    /\ fwdIn # NoBuild /\ fwdOut = NoBuild
    /\ \E order \in RangeOrders(fwdIn.headers) :
          fwdOut' = [rawQuery |-> MergeQuery(fwdIn.endpointQuery, fwdIn.query),
                     body |-> MarshalValue(UnmarshalBody(fwdIn.body)),
                     header |-> RequestHeaders(fwdIn.headers, order)]
    /\ UNCHANGED fwdIn
    /\ UNCHANGED <<config, supPc, sleepLeft, connOpen, openConns, message,
                   payload, pingPending, hbs, readResult, elapsed, idle>>
    /\ UNCHANGED mainVars
    /\ UNCHANGED relayObs

BuildInit ==
    /\ InitProgram
    /\ fwdIn \in BuildInputs /\ fwdOut = NoBuild

BuildSpec == BuildInit /\ [][BuildRequest]_vars

\* ------------------------------------------------------------------ claims
\* The read loop of connectAndListen is between ReadMessage and the return.
InLoop == supPc \in {"read", "decode", "filter", "forward", "http"}

\* The frame in hand has been read and not yet passed the id filter, and it
\* decodes with the configured id.
PendingMatch ==
    IF supPc \in {"decode", "filter"} /\ message.wf /\ message.id = config.InspectorID
    THEN 1 ELSE 0

\* C1: identity filtering.  Over any sequence of frames the number of
\* forwardWebhook invocations equals the number of frames read that decode
\* with id = config.InspectorID (less the frame still in hand): one forward
\* for each matching frame, none for any other.
C1_IdentityFiltering ==
    forwards + PendingMatch = matching

\* Two frames were read and handled, one with the configured id and one
\* without, and exactly one was forwarded.
C1_Witness ==
    /\ supPc = "read" /\ framesRead = 2
    /\ matching = 1 /\ forwards = 1
    /\ outcome = "Discarded"

\* C2 (as claimed): once done is closed while the supervisor is blocked
\* reading a frame on a Live session, the session is torn down, the read
\* loop returns and the supervisor loop observes done and returns.
C2_ShutdownUnwinds ==
    (done /\ supPc = "read") ~> (supPc = "returned")

\* C3 (as claimed): once done is closed the supervisor starts no further
\* dial; a shutdown armed during the reconnect wait is observed by the wait.
C3_NoDialAfterShutdown ==
    [][(done /\ supPc' = "dial") => supPc = "dial"]_vars

\* C4: shutdown is armed at most once.  However many signals arrive, done is
\* closed exactly once and never twice (no panic); once closed it stays
\* closed for every later observer; the supervisor's return is terminal.
C4_ShutdownArmedOnce ==
    /\ [](~panicked /\ closeCount <= 1 /\ (done <=> closeCount = 1))
    /\ [][(done => done') /\ (supPc = "returned" => supPc' = "returned")]_vars

\* Two signals were delivered, done was closed once and the supervisor loop
\* has returned.
C4_Witness ==
    signals = 2 /\ closeCount = 1 /\ done /\ supPc = "returned"

\* C5: the supervisor never gives up short of shutdown.  The supervisor loop
\* has returned only if done is closed, and every return of connectAndListen
\* (dial failure or lost session) with done open is followed by another dial
\* unless done is closed meanwhile.
C5_NeverGivesUp ==
    /\ [](supPc = "returned" => done)
    /\ ((supPc = "check" /\ ~done) ~> (supPc = "dial" \/ done))

\* A new session is Live after an earlier one was lost (the earlier
\* session's heartbeat goroutine is still around), done open.
C5_Witness ==
    /\ supPc = "read" /\ connOpen /\ ~done
    /\ \E h \in hbs : ~h.live

\* C6: reconnect cadence.  With done open the supervisor starts a dial, other
\* than the first, only when the full reconnect delay has passed since
\* connectAndListen last returned; every failed dial restarts the delay.
C6_ReconnectCadence ==
    [][(supPc # "dial" /\ supPc' = "dial" /\ ~done) => elapsed >= ReconnectDelay]_vars

\* The supervisor is about to dial again, the delay has passed, done open.
C6_Witness ==
    supPc = "dial" /\ elapsed = ReconnectDelay /\ ~done

\* The heartbeat goroutine of the Live session has terminated on a failed
\* probe send (done is open, so it did not leave through <-done).
HeartbeatSendFailed ==
    connOpen /\ ~done /\ ~(\E h \in hbs : h.live)

\* C7 (as claimed): a failed heartbeat probe send marks the session dead, so
\* that the read loop unwinds and the connection is closed.
C7_HeartbeatFailureKillsSession ==
    HeartbeatSendFailed ~> (~connOpen \/ done)

\* C8 (as claimed): a Live session on which no probe was sent or answered
\* for more than the heartbeat interval plus the deadline is torn down.
C8_HeartbeatLiveness ==
    (connOpen /\ idle > HeartbeatInterval + ControlDeadline) ~> (~connOpen \/ done)

\* forwardWebhook fails before client.Do for the payload in hand.
ForwardPrecheckFails ==
    \/ UrlParseErr(config.LocalEndpoint)
    \/ MarshalErr(payload)
    \/ NewRequestErr(payload.Method)

\* C9: at most one HTTP request per frame, never retried.  client.Do is
\* executed only by forwardWebhook, once when URL, body and request are
\* good and not at all otherwise, and nothing else (a transport error, the
\* next read) executes a request; so requests never outnumber forwards nor
\* frames read.
C9_AtMostOneRequest ==
    /\ [](requests <= forwards /\ forwards <= framesRead)
    /\ [][requests' = requests +
            (IF supPc = "forward" /\ supPc' # "forward" /\ ~ForwardPrecheckFails
             THEN 1 ELSE 0)]_vars

\* Two frames were forwarded: one request was executed and one forward
\* failed, and no second request was made for it.
C9_Witness ==
    /\ supPc = "read" /\ forwards = 2 /\ requests = 1
    /\ outcome = "ForwardFailed"

\* C10: only a read error ends the read loop.  The loop is left exactly by a
\* step in which ReadMessage returns an error; decode failure, id mismatch
\* and every forward failure keep the loop running on an open connection.
C10_OnlyReadErrorEndsLoop ==
    /\ [][(InLoop /\ ~InLoop') <=> (supPc = "read" /\ readResult' = "error")]_vars
    /\ [][(InLoop /\ supPc # "read") => (InLoop' /\ connOpen')]_vars

\* The loop went through two frames, the last one a failed forward, and was
\* then ended by a read error.
C10_Witness ==
    /\ supPc = "check" /\ readResult = "error"
    /\ framesRead = 2 /\ outcome = "ForwardFailed"

\* An accepted frame for which forwardWebhook gets as far as client.Do.
Replayable(a) ==
    ~UrlParseErr(config.LocalEndpoint) /\ ~NewRequestErr(a.method)

\* The read loop is done with accepted frame a as far as starting its replay.
ReplayDecided(a) ==
    a.n < framesRead \/ supPc \notin {"decode", "filter", "forward"}

ReplayDue(a) == Replayable(a) /\ ReplayDecided(a)

\* The frame numbers of a sequence of accepted frames.
FrameNumbers(as) == [i \in 1..Len(as) |-> as[i].n]

\* C11: strictly sequential, in-order replay.  At most one forwardWebhook
\* call is in progress, no frame is read while one is, and the executed
\* replays are exactly the accepted frames that reach client.Do, in the
\* order the frames were read.
C11_SequentialInOrder ==
    /\ [](inflight \in 0..1)
    /\ [](replays = FrameNumbers(SelectSeq(accepted, ReplayDue)))
    /\ [][framesRead' # framesRead => inflight = 0]_vars

\* Two accepted frames were replayed one after the other, in order.
C11_Witness ==
    supPc = "read" /\ replays = <<1, 2>> /\ inflight = 0

\* sub occurs in s as a run of adjacent elements.
Contains(s, sub) ==
    \E i \in 0..(Len(s) - Len(sub)) : \A j \in 1..Len(sub) : s[i + j] = sub[j]

Built == fwdOut # NoBuild
ExampleEndpointQuery == <<<<"z", "1">>>>
ExampleEventQuery == [k \in {"z", "w"} |-> IF k = "z" THEN "2" ELSE "3"]
MergedExample ==
    /\ Built
    /\ fwdIn.endpointQuery = ExampleEndpointQuery
    /\ fwdIn.query = ExampleEventQuery

\* With a non-empty event query the replay query holds the event's value
\* for every event key and the endpoint's values for every other key.
EventQueryWins ==
    (Built /\ DOMAIN fwdIn.query # {}) =>
        LET out == ParseQuery(fwdOut.rawQuery)
            base == ParseQuery(fwdIn.endpointQuery)
        IN  /\ DOMAIN out = DOMAIN base \cup DOMAIN fwdIn.query
            /\ \A k \in DOMAIN fwdIn.query : out[k] = <<fwdIn.query[k]>>
            /\ \A k \in DOMAIN base \ DOMAIN fwdIn.query : out[k] = base[k]

\* C12 as stated: the event's values win, the endpoint's other parameters
\* keep theirs, and for endpoint query z=1 and event query {z: 2, w: 3} the
\* replay query contains z=2&w=3.
C12_AsStated ==
    /\ EventQueryWins
    /\ MergedExample =>
          Contains(fwdOut.rawQuery, <<<<"z", "2">>, <<"w", "3">>>>)

\* C12: with a non-empty event query the event's values win and the
\* endpoint's other parameters keep theirs; the merged query is written
\* sorted by key, so for endpoint query z=1 and event query {z: 2, w: 3} it
\* is w=3&z=2.
C12_QueryMerge ==
    /\ EventQueryWins
    /\ (Built /\ DOMAIN fwdIn.query # {}) =>
          fwdOut.rawQuery = Encode(ParseQuery(fwdOut.rawQuery))
    /\ MergedExample => fwdOut.rawQuery = <<<<"w", "3">>, <<"z", "2">>>>

C12_Witness == MergedExample

\* The payload's header entries stored under the canonical name c.
EntriesFor(c) == {n \in DOMAIN fwdIn.headers : CanonicalHeaderKey(n) = c}
ContentTypeForced ==
    Built => fwdOut.header["Content-Type"] = "application/json"

\* C13 as stated: every entry of the payload's headers other than
\* Content-Type is on the request with its value, and the request's
\* Content-Type is application/json.
C13_AsStated ==
    /\ ContentTypeForced
    /\ Built =>
          \A n \in DOMAIN fwdIn.headers :
              CanonicalHeaderKey(n) # "Content-Type" =>
                  /\ CanonicalHeaderKey(n) \in DOMAIN fwdOut.header
                  /\ fwdOut.header[CanonicalHeaderKey(n)] = fwdIn.headers[n]

\* C13: the request's Content-Type is always application/json; every other
\* canonical header name of the payload is on the request with the value of
\* one of the entries spelled that way, so an entry is on the request with
\* its value when no other entry has its name in another capitalization.
C13_HeaderCopy ==
    /\ ContentTypeForced
    /\ Built =>
          /\ DOMAIN fwdOut.header =
                {"Content-Type"} \cup
                {CanonicalHeaderKey(n) : n \in DOMAIN fwdIn.headers}
          /\ \A c \in DOMAIN fwdOut.header \ {"Content-Type"} :
                \E n \in EntriesFor(c) : fwdOut.header[c] = fwdIn.headers[n]

C13_Witness ==
    /\ Built
    /\ DOMAIN fwdIn.headers = {"content-type", "X-Test"}
    /\ fwdIn.headers["content-type"] = "text/plain"
    /\ fwdOut.header["X-Test"] = "1"

\* C14: the body sent, parsed as JSON, equals the body the frame carried.
C14_BodyRoundTrip ==
    (Built /\ fwdIn.body # AbsentBody) => fwdOut.body = fwdIn.body

\* A step in which a heartbeat goroutine takes the ticker case and its
\* probe is sent: the goroutine goes round its loop and waits again.
ProbeSent ==
    \E h \in hbs :
        /\ h.left = 0 /\ h.live
        /\ hbs' = (hbs \ {h}) \cup {[h EXCEPT !.left = HeartbeatInterval]}

\* C15: once done is closed no heartbeat goroutine sends a probe, and every
\* heartbeat goroutine terminates.
C15_NoProbeAfterShutdown ==
    /\ [][done => ~ProbeSent]_vars
    /\ done ~> (hbs = {} \/ mainPc = "exited")

\* C16: a Live session has exactly one heartbeat goroutine, no heartbeat
\* goroutine runs for a session whose connection has been closed, and so
\* there is never more than one heartbeat goroutine.
C16_OneHeartbeatWhileLive ==
    /\ connOpen => Cardinality({h \in hbs : h.live}) = 1
    /\ \A h \in hbs : h.live
    /\ Cardinality(hbs) <= 1

\* The relay with a server that also sends pings, no operator signal, under
\* the scheduler's fairness.
ProbeNext ==
    \/ RelayNext
    \/ ServerPing
    \/ \E ok \in BOOLEAN : SupHandlePing(ok)

ProbeSpec == Init /\ [][ProbeNext]_vars /\ Fairness

\* C17: every server ping received on a Live session is answered, also
\* during a forward, or the session ends.
C17_ProbesAnswered ==
    pingPending ~> ~pingPending

\* C18: at most one connection is open.  The connections opened and not
\* yet closed are the current session's one or none; the read loop runs on
\* an open connection, and outside connectAndListen (before a dial, in the
\* reconnect wait, after the loop has returned) none is open.
C18_AtMostOneConnection ==
    /\ openConns = (IF connOpen THEN 1 ELSE 0)
    /\ InLoop => connOpen
    /\ ~InLoop => openConns = 0

\* A second session is Live, the first one's connection closed.
C18_Witness ==
    /\ InLoop /\ openConns = 1 /\ elapsed = ReconnectDelay
    /\ \E h \in hbs : ~h.live

\* The heartbeat goroutines that can be running at once: sessions start a
\* reconnect delay apart and a goroutine outlives its session by less than
\* a heartbeat interval.
MaxHeartbeats == HeartbeatInterval \div ReconnectDelay + 1
\* A heartbeat goroutine of a closed connection is about to send.
StaleDue == \E h \in hbs : ~h.live /\ h.left = 0
\* The time a goroutine of a closed connection has left never grows.
StaleRunsDown ==
    \A g \in hbs' : ~g.live => \E h \in hbs : h.left >= g.left

\* C19: heartbeat goroutines do not leak.  A goroutine whose connection is
\* closed never waits longer than the interval it was waiting when the
\* connection closed, and when its tick comes it terminates; once done is
\* closed every goroutine terminates or the process exits; and the
\* goroutines running at once never exceed MaxHeartbeats.
C19_NoHeartbeatLeak ==
    /\ [](Cardinality(hbs) <= MaxHeartbeats)
    /\ [][StaleRunsDown]_vars
    /\ StaleDue ~> (~StaleDue \/ ~Running)
    /\ done ~> (hbs = {} \/ ~Running)

\* Heartbeat goroutines of several closed sessions are still running, one
\* of which is about to try its probe, and another session is Live.
C19_Witness ==
    /\ StaleDue /\ connOpen
    /\ Cardinality({h \in hbs : ~h.live}) >= 2

\* The program with an operator who may interrupt it, a server that may
\* refuse a dial, sends data frames but no pings and keeps the connections
\* it accepted, under the scheduler's fairness.
ShutdownNext ==
    \/ Signal
    \/ MainInterrupt
    \/ MainExit
    \/ \E ok \in BOOLEAN : SupDial(ok)
    \/ \E m \in Frames : SupReadMessage(m)
    \/ SupDecode
    \/ SupFilter
    \/ forwardWebhook
    \/ \E ok \in BOOLEAN : ClientDoReturns(ok)
    \/ SupCheck
    \/ SupWake
    \/ \E h \in hbs, ok \in BOOLEAN : HbPing(h, ok)
    \/ \E h \in hbs : HbDone(h)
    \/ Tick

ShutdownSpec == Init /\ [][ShutdownNext]_vars /\ Fairness

\* C20: an interrupt always ends the process.  After a signal main closes
\* done, waits the grace period and exits, whatever the supervisor is doing;
\* nothing the supervisor does takes main out of its grace wait.
C20_InterruptEndsProcess ==
    /\ (signals > 0) ~> (mainPc = "exited")
    /\ [][mainPc = "grace" => mainPc' \in {"grace", "exited"}]_vars

\* The process has exited with the supervisor inside an HTTP replay that
\* has not returned.
C20_Witness ==
    mainPc = "exited" /\ supPc = "http" /\ inflight = 1
====
